---------------------------- MODULE Spec2Model ----------------------------
(***************************************************************************)
(* A model of the programs of the pcax repository that its specification   *)
(* talks about:                                                            *)
(*   - the analysis notebook training_stability.ipynb (plot_lineplots and  *)
(*     the cells that call it),                                            *)
(*   - the hypertune configuration files (the hp tree and its sampling     *)
(*     annotations),                                                       *)
(*   - the job submission wrapper (a two-line shell script),               *)
(*   - the predictive-coding training step (T relaxation iterations, then  *)
(*     the weight update).                                                 *)
(* The four programs do not share state, so each has its own              *)
(* specification over the module's variables; the variables of the other   *)
(* programs stay at their initial value.                                   *)
(*                                                                         *)
(* Numbers: a state learning rate is kept in thousandths (0.3 is 300), so  *)
(* that the comparisons and the +0.1 of the notebook are exact.  The       *)
(* numbers of the configuration files are decimals in scientific form, a   *)
(* digit sequence and an exponent, compared digit by digit.                *)
(***************************************************************************)
EXTENDS Integers, Sequences, FiniteSets, TLC

VARIABLES
    \* ---- notebook
    df,          \* the results table the notebook holds (a set of rows)
    experiment,  \* the experiment whose results df holds
    plot,        \* what the last plot_lineplots call rendered
    files,       \* the artifact file system: path -> the call that wrote it
    calls,       \* every plot_lineplots call made so far
    \* ---- configuration files
    cfgFile,     \* the hypertune file being read ("none" before)
    cursor,      \* index of the hp entry resolved last (0: none yet)
    value,       \* the value the entry at cursor resolved to
    \* ---- job submission wrapper
    arg1,        \* $1 of the wrapper
    study,       \* the shell variable study
    jpc,         \* the wrapper's position
    invocations, \* the command lines the wrapper has run
    \* ---- training
    runCfg,      \* the configuration of the run ("none" before)
    tphase,      \* position inside the training step
    tstep,       \* training steps completed
    relax,       \* relaxation iterations done in the current step
    relaxAtUpdate \* relaxation iterations that preceded the last weight update

nbVars == <<df, experiment, plot, files, calls>>
cfgVars == <<cfgFile, cursor, value>>
jobVars == <<arg1, study, jpc, invocations>>
trainVars == <<runCfg, tphase, tstep, relax, relaxAtUpdate>>
vars == <<df, experiment, plot, files, calls, cfgFile, cursor, value,
          arg1, study, jpc, invocations,
          runCfg, tphase, tstep, relax, relaxAtUpdate>>

(***************************************************************************)
(* Bounds of the model.                                                    *)
(***************************************************************************)
MaxRows == 2         \* rows of an input table
MaxCalls == 2        \* plot_lineplots calls in one notebook session
MaxStudyLen == 3     \* characters of the wrapper's argument
MaxTrainSteps == 2   \* training steps of a run

(***************************************************************************)
(* Strings.                                                                *)
(***************************************************************************)
\* s[i..j] of Python; positions from 1.
Slice(s, i, j) == SubSeq(s, i, j)

\* pandas Series.str.contains(sub) / Python `sub in s`, for a literal sub.
Contains(s, sub) ==
    \E i \in 1..(Len(s) - Len(sub) + 1) : Slice(s, i, i + Len(sub) - 1) = sub

StartsWith(s, p) == Len(p) <= Len(s) /\ Slice(s, 1, Len(p)) = p

EndsWith(s, p) == Len(p) <= Len(s) /\ Slice(s, Len(s) - Len(p) + 1, Len(s)) = p

\* sorted(set) of Python, for a set of integers.
RECURSIVE SortedSeq(_)
SortedSeq(S) ==
    IF S = {} THEN <<>>
    ELSE LET m == CHOOSE x \in S : \A y \in S : x <= y
         IN <<m>> \o SortedSeq(S \ {m})

\* The position of x in sequence q (0 when absent).
IndexOf(q, x) ==
    IF \E i \in 1..Len(q) : q[i] = x
    THEN CHOOSE i \in 1..Len(q) : q[i] = x
    ELSE 0


(***************************************************************************)
(* The notebook: training_stability.ipynb.                                 *)
(***************************************************************************)
\* experiment.h_lr of the sweep, in thousandths.
HLrGrid == {1, 3, 10, 30, 100, 300, 1000}

\* Widths of the sweep (experiment.h_dims) the tables are drawn from.
HDims == {512, 1024}

\* Values of the column "condition": <definition>-<optimizer_w>-<momentum_w>.
Conditions == {"PC-sgd-0.9", "PC-adamw-0.9", "BP-sgd-0.9", "PC-sgd-0.5"}

\* Values of the column experiment.data.dataset.
Datasets == {"fashion_mnist", "two_moons"}

\* A row of the results table, on the columns plot_lineplots reads.
Rows ==
    [condition : Conditions, h_lr : HLrGrid, dataset : Datasets,
     hidden_dims : HDims]

\* The tables of at most k rows.
RECURSIVE TablesUpTo(_)
TablesUpTo(k) ==
    IF k = 0 THEN {{}}
    ELSE LET prev == TablesUpTo(k - 1)
         IN prev \cup {t \cup {r} : t \in prev, r \in Rows}

Tables == TablesUpTo(MaxRows)

\* The threshold of mask_pc, in thousandths: (results["config.h_lr"] < 0.3).
PcHLrLimit == 300

\* The shift of the duplicated BP rows, in thousandths: config.h_lr + 0.1.
BpShift == 100

\* mask_bp | mask_pc: the rows the filter keeps.
FilterRows(results) ==
    {r \in results :
        \/ Contains(r.condition, "BP")
        \/ Contains(r.condition, "PC") /\ r.h_lr < PcHLrLimit}

\* results.loc[results['experiment.data.dataset'] == dataset]
SelectDataset_All(results, dataset) == results

SelectDataset(results, dataset) == {r \in results : r.dataset = dataset}

\* The conditions of the three panels and their titles, in order.
PanelConditions == <<"PC-sgd-0.9", "PC-adamw-0.9", "BP-sgd-0.9">>

Titles == <<"PC - SGD", "PC - Adam", "BP">>

\* results.loc[results["condition"] == condition]
SelectCondition(results, condition) ==
    {r \in results : r.condition = condition}

\* The data handed to sns.lineplot for a panel: for a BP condition the rows
\* and a copy of each with config.h_lr raised by 0.1 (pd.concat).
PanelData(results, condition) ==
    LET results_condition == SelectCondition(results, condition)
    IN IF Contains(condition, "BP")
       THEN results_condition \cup
            {[r EXCEPT !.h_lr = r.h_lr + BpShift] : r \in results_condition}
       ELSE results_condition

\* sorted(results["config.hidden_dims"].unique())
WidthsOf(rows) == SortedSeq({r.hidden_dims : r \in rows})

\* seaborn's categorical hue mapping with a list palette: the levels are the
\* sorted distinct hue values of the panel's own data, and level k takes the
\* k-th colour of the list (a longer list is cut to the number of levels).
\* A colour is named by its index in the palette.
HueColours(data) ==
    LET levels == WidthsOf(data)
    IN [w \in {r.hidden_dims : r \in data} |-> IndexOf(levels, w)]

\* The figure plot_lineplots renders from its arguments.
Figure(results, dataset) ==
    LET kept == FilterRows(results)
        selected == SelectDataset(kept, dataset)
        h_dims == WidthsOf(selected)
    IN [results |-> results,
        dataset |-> dataset,
        kept |-> kept,
        h_dims |-> h_dims,
        n_colors |-> Len(h_dims),
        panels |->
            [i \in 1..3 |->
                LET data == PanelData(selected, PanelConditions[i])
                IN [title |-> Titles[i],
                    rows |-> data,
                    colour |-> HueColours(data),
                    legend |-> (i = 1)]]]

\* suffix = f"-{suffix}" if len(suffix) > 0 else ""
SuffixPart(suffix) == IF Len(suffix) > 0 THEN "-" \o suffix ELSE ""

\* f"lr-scaling-lineplot-{dataset}{suffix}.pdf"
FileName_NoSuffix(dataset, suffix) ==
    "lr-scaling-lineplot-" \o dataset \o ".pdf"

FileName(dataset, suffix) ==
    "lr-scaling-lineplot-" \o dataset \o SuffixPart(suffix) \o ".pdf"

\* os.path.join(a, b) on POSIX.
JoinPath(a, b) ==
    IF StartsWith(b, "/") THEN b
    ELSE IF a = "" \/ EndsWith(a, "/") THEN a \o b
    ELSE a \o "/" \o b

NoPlot == [dataset |-> "none"]

\* The experiments of the notebook (the two experiment_ids cells).
Experiments == {"main", "ablation"}

\* cluster.artifact_dir, and a folder written with its trailing separator.
Folders == {"artifacts", "artifacts/"}

\* The dataset arguments and the suffixes of the calls.
DatasetArgs == Datasets \cup {"fashion_mnist-constant-layer-size"}

Suffixes == {"", "constant-layer-size"}

\* nb.load_data("training_stability", experiment_ids): the table of an
\* experiment.
ResultsOf(e) ==
    IF e = "main"
    THEN {[condition |-> c, h_lr |-> 100, dataset |-> "fashion_mnist",
           hidden_dims |-> 512] : c \in Conditions}
    ELSE {[condition |-> c, h_lr |-> 300, dataset |-> "fashion_mnist",
           hidden_dims |-> 1024] : c \in Conditions}

\* experiment_folder, results, results_with_metrics, df = nb.load_data(...)
LoadData(e) ==
    /\ experiment' = e
    /\ df' = ResultsOf(e)
    /\ UNCHANGED <<plot, files, calls>>
    /\ UNCHANGED <<cfgVars, jobVars, trainVars>>

\* plot_lineplots(df, experiment_folder, dataset, suffix)
PlotLineplots(experiment_folder, dataset, suffix) ==
    LET path == JoinPath(experiment_folder, FileName(dataset, suffix))
        call == [experiment |-> experiment,
                 folder |-> experiment_folder,
                 dataset |-> dataset,
                 suffix |-> suffix,
                 path |-> path]
    IN /\ Cardinality(calls \cup {call}) <= MaxCalls
       /\ plot' = Figure(df, dataset)
       /\ files' = (path :> call) @@ files
       /\ calls' = calls \cup {call}
       /\ UNCHANGED <<df, experiment>>
       /\ UNCHANGED <<cfgVars, jobVars, trainVars>>


(***************************************************************************)
(* The job submission wrapper:                                             *)
(*     study=$1                                                            *)
(*     python -m stune --exe bp_hypertune --study bp_${study}              *)
(*         --gpus "0,1,2,3,4,5,6,7" --n_trials 32:8 --tuner ssh            *)
(*         --config bp_${study}_hypertune.yaml                             *)
(* A word of the command is a sequence of segments; a segment is literal   *)
(* (or quoted) text, or the result of an unquoted parameter expansion,     *)
(* which the shell splits into fields at the characters of IFS.            *)
(***************************************************************************)
\* The characters the wrapper's argument is drawn from.
StudyChars == {"a", "b", " "}

\* The strings of at most n characters over StudyChars.
RECURSIVE StringsUpTo(_)
StringsUpTo(n) ==
    IF n = 0 THEN {""}
    ELSE LET prev == StringsUpTo(n - 1)
         IN prev \cup {t \o c : t \in prev, c \in StudyChars}

StudyArgs == StringsUpTo(MaxStudyLen)

\* The default IFS: space, tab, newline.
IFS == {" ", "\t", "\n"}

Lit(text) == [text |-> text, expanded |-> FALSE]

\* ${study}, unquoted.
Expand(text) == [text |-> text, expanded |-> TRUE]

\* The characters of a segment, each marked as a field separator or not.
MarkedChars(seg) ==
    [i \in 1..Len(seg.text) |->
        [c |-> Slice(seg.text, i, i),
         sep |-> seg.expanded /\ Slice(seg.text, i, i) \in IFS]]

RECURSIVE FlattenWord(_)
FlattenWord(segs) ==
    IF segs = <<>> THEN <<>>
    ELSE MarkedChars(Head(segs)) \o FlattenWord(Tail(segs))

\* Field splitting: the maximal runs of characters between separators; IFS
\* white space never delimits an empty field.
RECURSIVE SplitFields(_, _, _)
SplitFields(cs, cur, open) ==
    IF cs = <<>> THEN (IF open THEN <<cur>> ELSE <<>>)
    ELSE IF Head(cs).sep
         THEN (IF open THEN <<cur>> ELSE <<>>) \o SplitFields(Tail(cs), "", FALSE)
         ELSE SplitFields(Tail(cs), cur \o Head(cs).c, TRUE)

\* The fields one word of the command expands to.
Fields(word) == SplitFields(FlattenWord(word), "", FALSE)

RECURSIVE ExpandWords(_)
ExpandWords(words) ==
    IF words = <<>> THEN <<>>
    ELSE Fields(Head(words)) \o ExpandWords(Tail(words))

\* The argument vector of line 3 of the wrapper, given the variable study.
CommandLine(st) ==
    ExpandWords(<<
        <<Lit("python")>>, <<Lit("-m")>>, <<Lit("stune")>>,
        <<Lit("--exe")>>, <<Lit("bp_hypertune")>>,
        <<Lit("--study")>>, <<Lit("bp_"), Expand(st)>>,
        <<Lit("--gpus")>>, <<Lit("0,1,2,3,4,5,6,7")>>,
        <<Lit("--n_trials")>>, <<Lit("32:8")>>,
        <<Lit("--tuner")>>, <<Lit("ssh")>>,
        <<Lit("--config")>>, <<Lit("bp_"), Expand(st), Lit("_hypertune.yaml")>>
    >>)

\* The words that follow option flag in argv, up to the next option.
RECURSIVE TakeValues(_)
TakeValues(ws) ==
    IF ws = <<>> \/ StartsWith(Head(ws), "--") THEN <<>>
    ELSE <<Head(ws)>> \o TakeValues(Tail(ws))

ArgsOf(argv, flag) ==
    LET i == IndexOf(argv, flag)
    IN IF i = 0 THEN <<>> ELSE TakeValues(SubSeq(argv, i + 1, Len(argv)))

\* study=$1 (an assignment is not split into fields)
AssignStudy ==
    /\ jpc = "start"
    /\ study' = arg1
    /\ jpc' = "assigned"
    /\ UNCHANGED <<arg1, invocations>>
    /\ UNCHANGED <<nbVars, cfgVars, trainVars>>

\* python -m stune ...
RunStune ==
    /\ jpc = "assigned"
    /\ invocations' = Append(invocations, CommandLine(study))
    /\ jpc' = "done"
    /\ UNCHANGED <<arg1, study>>
    /\ UNCHANGED <<nbVars, cfgVars, trainVars>>

(***************************************************************************)
(* The hypertune configuration files.  A number is a decimal in scientific *)
(* form: digits d[1] d[2] ... with d[1] # 0 and an exponent e, standing    *)
(* for d[1].d[2]d[3]... * 10^e; zero has no digits.                        *)
(***************************************************************************)
Num(d, e) == [kind |-> "num", d |-> d, e |-> e]

\* YAML null.
Null == [kind |-> "null"]

IsNull(x) == x.kind = "null"

IsZero(x) == x.d = <<>>

DigitAt(x, i) == IF i <= Len(x.d) THEN x.d[i] ELSE 0

MaxOf(a, b) == IF a >= b THEN a ELSE b

MinOf(a, b) == IF a <= b THEN a ELSE b

\* a < b, for numbers that are not negative.
Less(a, b) ==
    IF IsZero(b) THEN FALSE
    ELSE IF IsZero(a) THEN TRUE
    ELSE IF a.e # b.e THEN a.e < b.e
    ELSE \E i \in 1..MaxOf(Len(a.d), Len(b.d)) :
            /\ DigitAt(a, i) < DigitAt(b, i)
            /\ \A j \in 1..(i - 1) : DigitAt(a, j) = DigitAt(b, j)

Leq(a, b) == ~Less(b, a)

RECURSIVE Pow10(_)
Pow10(n) == IF n = 0 THEN 1 ELSE 10 * Pow10(n - 1)

\* The exponent of the last digit of x.
LastExp(x) == x.e - Len(x.d) + 1

\* x as a whole number of units 10^q, for q at most the exponent of x's last
\* digit.
RECURSIVE UnitsFrom(_, _, _)
UnitsFrom(x, q, i) ==
    IF i > Len(x.d) THEN 0
    ELSE x.d[i] * Pow10(x.e - i + 1 - q) + UnitsFrom(x, q, i + 1)

Units(x, q) == UnitsFrom(x, q, 1)

\* The decimal digits of n > 0, most significant first.
RECURSIVE DigitsOf(_)
DigitsOf(n) == IF n < 10 THEN <<n>> ELSE DigitsOf(n \div 10) \o <<n % 10>>

RECURSIVE StripZeros(_)
StripZeros(d) ==
    IF d # <<>> /\ d[Len(d)] = 0 THEN StripZeros(SubSeq(d, 1, Len(d) - 1))
    ELSE d

\* The number n * 10^q.
FromUnits(n, q) ==
    IF n = 0 THEN Num(<<>>, 0)
    ELSE Num(StripZeros(DigitsOf(n)), q + Len(DigitsOf(n)) - 1)

\* The keys of a sampling annotation.
SamplingKeys == {"sample_type", "sample_space", "default"}

\* A hyperparameter given as a plain value.
Plain(v) == [value |-> v]

\* sample_type: categorical; sample_space: [ ... ]; default: ...
Categorical(space, default) ==
    [sample_type |-> "categorical", sample_space |-> space, default |-> default]

\* sample_type: float; sample_space: [[low, high], null, true]; default: ...
FloatLog(low, high, default) ==
    [sample_type |-> "float",
     sample_space |-> <<<<low, high>>, Null, TRUE>>,
     default |-> default]

\* sample_type: float; sample_space: [[low, high], step]; default: ...
FloatStep_Swapped(low, high, step, default) ==
    [sample_type |-> "float",
     sample_space |-> <<<<high, low>>, step>>,
     default |-> default]

FloatStep(low, high, step, default) ==
    [sample_type |-> "float",
     sample_space |-> <<<<low, high>>, step>>,
     default |-> default]

Entry(path, node) == [path |-> path, node |-> node]

ActFns == <<"relu", "leaky_relu", "gelu", "tanh", "hard_tanh">>

\* hp of the mnist / adamw file.
HpMnistAdamw ==
    << Entry("layer_dims", Plain(<<64, 128, 128, 784>>)),
       Entry("act_fn", Categorical(ActFns, "hard_tanh")),
       Entry("output_act_fn", Plain(Null)),
       Entry("batch_size", Plain(200)),
       Entry("epochs", Plain(30)),
       Entry("T", Plain(20)),
       Entry("use_ipc", Plain(FALSE)),
       Entry("optim.x.lr",
             FloatLog(Num(<<1>>, -2), Num(<<5>>, -1),
                 Num(<<1, 9, 8, 4, 9, 7, 5, 0, 7, 3, 7, 1, 6, 4, 9, 7, 4>>, -2))),
       Entry("optim.x.momentum",
             FloatStep(Num(<<>>, 0), Num(<<9, 5>>, -1), Num(<<5>>, -2),
                 Num(<<1, 5>>, -1))),
       Entry("optim.w.name", Plain("adamw")),
       Entry("optim.w.lr",
             FloatLog(Num(<<3>>, -5), Num(<<1>>, -3),
                 Num(<<3, 4, 0, 1, 3, 8, 3, 5, 5, 9, 4, 7, 6, 1, 8, 3>>, -4))),
       Entry("optim.w.wd",
             FloatLog(Num(<<1>>, -5), Num(<<1>>, -2),
                 Num(<<1, 2, 5, 1, 4, 6, 8, 5, 1, 1, 6, 4, 9, 2, 7, 4, 7>>, -5))),
       Entry("optim.w.momentum", Plain(Num(<<>>, 0))) >>

\* hp of the fashion_mnist / adamw file.
HpFashionMnistAdamw ==
    << Entry("layer_dims", Plain(<<64, 128, 128, 784>>)),
       Entry("act_fn", Categorical(ActFns, "hard_tanh")),
       Entry("output_act_fn", Plain(Null)),
       Entry("batch_size", Plain(200)),
       Entry("epochs", Plain(30)),
       Entry("T", Plain(20)),
       Entry("use_ipc", Plain(FALSE)),
       Entry("optim.x.lr",
             FloatLog(Num(<<1>>, -2), Num(<<5>>, -1),
                 Num(<<1, 1, 9, 1, 0, 1, 7, 8, 1, 7, 4, 0, 4, 8, 6, 2, 8>>, -2))),
       Entry("optim.x.momentum",
             FloatStep(Num(<<>>, 0), Num(<<9, 5>>, -1), Num(<<5>>, -2),
                 Num(<<4, 5>>, -1))),
       Entry("optim.w.name", Plain("adamw")),
       Entry("optim.w.lr",
             FloatLog(Num(<<3>>, -5), Num(<<1>>, -3),
                 Num(<<5, 1, 4, 9, 9, 7, 9, 6, 0, 8, 3, 6, 9, 0, 7, 2>>, -4))),
       Entry("optim.w.wd",
             FloatLog(Num(<<1>>, -5), Num(<<1>>, -2),
                 Num(<<7, 3, 8, 2, 1, 3, 5, 8, 7, 8, 2, 8, 2, 1, 2, 1>>, -5))),
       Entry("optim.w.momentum", Plain(Num(<<>>, 0))) >>

\* hp of the cifar10 / sgd file.
HpCifar10Sgd ==
    << Entry("num_layers", Plain(3)),
       Entry("internal_state_dim", Plain(4)),
       Entry("internal_state_channels", Plain(8)),
       Entry("kernel_size", Categorical(<<3, 4, 5, 7>>, 4)),
       Entry("act_fn", Categorical(ActFns, "tanh")),
       Entry("output_act_fn", Plain(Null)),
       Entry("batch_size", Plain(200)),
       Entry("epochs", Plain(30)),
       Entry("T", Plain(20)),
       Entry("use_ipc", Plain(FALSE)),
       Entry("optim.x.lr",
             FloatLog(Num(<<1>>, -2), Num(<<5>>, -1),
                 Num(<<3, 6, 8, 6, 3, 3, 5, 7, 7, 5, 1, 2, 8, 2, 4, 2>>, -1))),
       Entry("optim.x.momentum",
             FloatStep(Num(<<>>, 0), Num(<<9, 5>>, -1), Num(<<5>>, -2),
                 Num(<<5, 5>>, -1))),
       Entry("optim.w.name", Plain("sgd")),
       Entry("optim.w.lr",
             FloatLog(Num(<<3>>, -5), Num(<<1>>, -2),
                 Num(<<9, 1, 5, 8, 3, 4, 9, 6, 8, 8, 4, 2, 9, 8, 6, 8>>, -4))),
       Entry("optim.w.wd",
             FloatLog(Num(<<1>>, -5), Num(<<1>>, -2),
                 Num(<<5, 5, 1, 6, 4, 1, 9, 5, 6, 8, 4, 5, 6, 4, 4, 1>>, -3))),
       Entry("optim.w.momentum",
             FloatStep(Num(<<>>, 0), Num(<<9, 5>>, -1), Num(<<5>>, -2),
                 Num(<<4, 5>>, -1))) >>

\* hp of the cifar10 / adamw file.
HpCifar10Adamw ==
    << Entry("num_layers", Plain(3)),
       Entry("internal_state_dim", Plain(4)),
       Entry("internal_state_channels", Plain(8)),
       Entry("kernel_size", Categorical(<<3, 4, 5, 7>>, 4)),
       Entry("act_fn", Categorical(ActFns, "hard_tanh")),
       Entry("output_act_fn", Plain(Null)),
       Entry("batch_size", Plain(200)),
       Entry("epochs", Plain(30)),
       Entry("T", Plain(20)),
       Entry("use_ipc", Plain(FALSE)),
       Entry("optim.x.lr",
             FloatLog(Num(<<1>>, -2), Num(<<5>>, -1),
                 Num(<<1, 6, 6, 6, 0, 5, 3, 2, 9, 1, 3, 3, 7, 5, 1, 8, 7>>, -2))),
       Entry("optim.x.momentum",
             FloatStep(Num(<<>>, 0), Num(<<9, 5>>, -1), Num(<<5>>, -2),
                 Num(<<5>>, -2))),
       Entry("optim.w.name", Plain("adamw")),
       Entry("optim.w.lr",
             FloatLog(Num(<<3>>, -5), Num(<<1>>, -3),
                 Num(<<8, 9, 7, 8, 8, 3, 6, 9, 6, 5, 2, 0, 8, 6, 1>>, -4))),
       Entry("optim.w.wd",
             FloatLog(Num(<<1>>, -5), Num(<<1>>, -2),
                 Num(<<9, 9, 2, 8, 5, 6, 8, 5, 8, 9, 9, 7, 5, 5, 2>>, -3))),
       Entry("optim.w.momentum", Plain(Num(<<>>, 0))) >>

HypertuneFiles ==
    {"pc_mnist_adamw", "pc_fashionmnist_adamw", "pc_cifar10_sgd",
     "pc_cifar10_adamw"}

\* The hp entries of a hypertune file, in the file's order.
HpOf(file) ==
    CASE file = "pc_mnist_adamw" -> HpMnistAdamw
      [] file = "pc_fashionmnist_adamw" -> HpFashionMnistAdamw
      [] file = "pc_cifar10_sgd" -> HpCifar10Sgd
      [] file = "pc_cifar10_adamw" -> HpCifar10Adamw

\* A hyperparameter annotated for search: a mapping with a sampling key.
Annotated(node) == DOMAIN node \cap SamplingKeys # {}

\* The plain value of hyperparameter path in a file.
PlainValue(file, path) ==
    LET hp == HpOf(file)
        i == CHOOSE k \in 1..Len(hp) : hp[k].path = path
    IN hp[i].node.value


\* Whether a float sample space admits x: inside [low, high] and, with a
\* step, a whole number of steps above low.
OnGrid(low, step, x) ==
    LET q == MinOf(MinOf(LastExp(low), LastExp(step)), LastExp(x))
    IN /\ Units(x, q) >= Units(low, q)
       /\ (Units(x, q) - Units(low, q)) % Units(step, q) = 0

InFloatSpace(space, x) ==
    LET low == space[1][1]
        high == space[1][2]
        step == space[2]
    IN /\ Leq(low, x)
       /\ Leq(x, high)
       /\ IsNull(step) \/ OnGrid(low, step, x)

InCategoricalSpace(space, x) == \E i \in 1..Len(space) : space[i] = x

\* Whether the sample space of an annotated node admits x.
Admits(node, x) ==
    CASE node.sample_type = "categorical" -> InCategoricalSpace(node.sample_space, x)
      [] node.sample_type = "float" -> InFloatSpace(node.sample_space, x)
      [] OTHER -> FALSE

\* The values a tuner may draw for an annotated node: every element of a
\* categorical space, every grid point of a stepped range, the two ends of a
\* continuous range.
Samples(node) ==
    IF node.sample_type = "categorical"
    THEN {node.sample_space[i] : i \in 1..Len(node.sample_space)}
    ELSE LET low == node.sample_space[1][1]
             high == node.sample_space[1][2]
             step == node.sample_space[2]
         IN IF IsNull(step) THEN {low, high}
            ELSE LET q == MinOf(MinOf(LastExp(low), LastExp(step)), LastExp(high))
                     n == (Units(high, q) - Units(low, q)) \div Units(step, q)
                 IN {FromUnits(Units(low, q) + k * Units(step, q), q) : k \in 0..n}

\* The entry the reader is at.
CurrentNode == HpOf(cfgFile)[cursor].node

\* A hypertune file is opened.
LoadConfig(file) ==
    /\ cfgFile = "none"
    /\ cfgFile' = file
    /\ cursor' = 0
    /\ UNCHANGED value
    /\ UNCHANGED <<nbVars, jobVars, trainVars>>

\* The next hp entry takes its plain value, or the default of its annotation.
ResolveDefault ==
    /\ cfgFile # "none"
    /\ cursor < Len(HpOf(cfgFile))
    /\ LET node == HpOf(cfgFile)[cursor + 1].node
       IN value' = IF Annotated(node) THEN node.default ELSE node.value
    /\ cursor' = cursor + 1
    /\ UNCHANGED cfgFile
    /\ UNCHANGED <<nbVars, jobVars, trainVars>>

\* The next hp entry, annotated for search, takes a value drawn from its
\* sample space.
SampleHp ==
    /\ cfgFile # "none"
    /\ cursor < Len(HpOf(cfgFile))
    /\ LET node == HpOf(cfgFile)[cursor + 1].node
       IN /\ Annotated(node)
          /\ value' \in Samples(node)
    /\ cursor' = cursor + 1
    /\ UNCHANGED cfgFile
    /\ UNCHANGED <<nbVars, jobVars, trainVars>>

(***************************************************************************)
(* The training step of a predictive-coding run: the states are relaxed    *)
(* for T iterations, then the weights are updated.  T is read from the     *)
(* configuration of the run.                                               *)
(***************************************************************************)
\* The configurations a run is started from.
RunConfigs ==
    {"training_stability", "pc_mnist_adamw", "pc_fashionmnist_adamw",
     "pc_cifar10_sgd", "pc_cifar10_adamw"}

\* optim.h.T of the sweep configuration.
SweepT == 8

\* optim.num_epochs of the sweep configuration.
SweepEpochs == 8

\* The number of relaxation iterations per training step a run is configured
\* with: optim.h.T of the sweep configuration, hp.T of a hypertune file.
ConfigT_Epochs(cfg) ==
    IF cfg = "training_stability" THEN SweepEpochs ELSE PlainValue(cfg, "epochs")

ConfigT(cfg) ==
    IF cfg = "training_stability" THEN SweepT ELSE PlainValue(cfg, "T")

StartRun(cfg) ==
    /\ runCfg = "none"
    /\ runCfg' = cfg
    /\ tphase' = "idle"
    /\ UNCHANGED <<tstep, relax, relaxAtUpdate>>
    /\ UNCHANGED <<nbVars, cfgVars, jobVars>>

\* A training step begins: the states are initialised for the batch.
BeginStep ==
    /\ runCfg # "none"
    /\ tphase \in {"idle", "updated"}
    /\ tstep < MaxTrainSteps
    /\ tphase' = "relaxing"
    /\ relax' = 0
    /\ UNCHANGED <<runCfg, tstep, relaxAtUpdate>>
    /\ UNCHANGED <<nbVars, cfgVars, jobVars>>

\* One relaxation iteration of the states.
RelaxStates ==
    /\ tphase = "relaxing"
    /\ relax < ConfigT(runCfg)
    /\ relax' = relax + 1
    /\ UNCHANGED <<runCfg, tphase, tstep, relaxAtUpdate>>
    /\ UNCHANGED <<nbVars, cfgVars, jobVars>>

\* The weight update, once the relaxation is over.
UpdateWeights ==
    /\ tphase = "relaxing"
    /\ relax = ConfigT(runCfg)
    /\ tphase' = "updated"
    /\ relaxAtUpdate' = relax
    /\ tstep' = tstep + 1
    /\ UNCHANGED <<runCfg, relax>>
    /\ UNCHANGED <<nbVars, cfgVars, jobVars>>



(***************************************************************************)
(* Specifications.                                                         *)
(***************************************************************************)
NbInit ==
    /\ df = {}
    /\ experiment = "none"
    /\ plot = NoPlot
    /\ files = <<>>
    /\ calls = {}

CfgInit == cfgFile = "none" /\ cursor = 0 /\ value = "unset"

JobInit == arg1 = "" /\ study = "" /\ jpc = "start" /\ invocations = <<>>

TrainInit ==
    /\ runCfg = "none"
    /\ tphase = "idle"
    /\ tstep = 0
    /\ relax = 0
    /\ relaxAtUpdate = 0

\* plot_lineplots applied once to each table of at most MaxRows rows, with
\* the arguments of the notebook's first two calls:
\* plot_lineplots(df, cluster.artifact_dir, <dataset>).
InitPlot ==
    /\ df \in Tables
    /\ experiment = "main"
    /\ plot = NoPlot
    /\ files = <<>>
    /\ calls = {}
    /\ CfgInit /\ JobInit /\ TrainInit

NextPlot ==
    \E d \in Datasets : calls = {} /\ PlotLineplots("artifacts", d, "")

SpecPlot == InitPlot /\ [][NextPlot]_vars

\* The notebook session: data is loaded, then plot_lineplots is called.
InitNotebook == NbInit /\ CfgInit /\ JobInit /\ TrainInit

PlotCell(f, d, s) == experiment # "none" /\ PlotLineplots(f, d, s)

NextNotebook ==
    \/ \E e \in Experiments : LoadData(e)
    \/ \E f \in Folders, d \in DatasetArgs, s \in Suffixes : PlotCell(f, d, s)

SpecNotebook == InitNotebook /\ [][NextNotebook]_vars

\* Reading the hypertune files.
InitConfig == NbInit /\ CfgInit /\ JobInit /\ TrainInit

NextConfig ==
    \/ \E f \in HypertuneFiles : LoadConfig(f)
    \/ ResolveDefault
    \/ SampleHp

SpecConfig == InitConfig /\ [][NextConfig]_vars

\* The wrapper run with each argument.
InitJob ==
    /\ arg1 \in StudyArgs
    /\ study = ""
    /\ jpc = "start"
    /\ invocations = <<>>
    /\ NbInit /\ CfgInit /\ TrainInit

NextJob == AssignStudy \/ RunStune

SpecJob == InitJob /\ [][NextJob]_vars

\* A training run.
InitTrain == NbInit /\ CfgInit /\ JobInit /\ TrainInit

NextTrain ==
    \/ \E c \in RunConfigs : StartRun(c)
    \/ BeginStep
    \/ RelaxStates
    \/ UpdateWeights

SpecTrain == InitTrain /\ [][NextTrain]_vars


(***************************************************************************)
(* The claims.                                                             *)
(***************************************************************************)
Plotted == plot.dataset # "none"

\* The limit the comment of the filter names: Only keep "PC" with h_lr < 1.0.
CommentHLrLimit == 1000

\* C1: in plot_lineplots a row whose condition contains "BP" always survives
\* the filter, and a row whose condition contains "PC" survives if and only
\* if its config.h_lr is strictly below 1.0.
C1_FilterKeepsPcBelowOne ==
    Plotted =>
        \A r \in plot.results :
            /\ Contains(r.condition, "BP") => r \in plot.kept
            /\ (Contains(r.condition, "PC") /\ ~Contains(r.condition, "BP"))
                  => (r \in plot.kept <=> r.h_lr < CommentHLrLimit)

\* C2, as stated: two calls that differ in dataset name or in experiment
\* condition (the experiment whose results they plot) write different files.
C2_DistinctByDatasetOrCondition ==
    \A c1, c2 \in calls :
        (c1.dataset # c2.dataset \/ c1.experiment # c2.experiment)
            => c1.path # c2.path

\* C2, amended: every call leaves one PDF file under its experiment_folder,
\* named after the dataset and the suffix; two calls into the same folder
\* that differ in the dataset name only, or in the suffix only, write
\* different files.
C2_KeyedByDatasetAndSuffix ==
    /\ \A c \in calls :
          /\ c.path \in DOMAIN files
          /\ StartsWith(c.path, c.folder)
          /\ EndsWith(c.path, ".pdf")
          /\ Contains(c.path, c.dataset)
    /\ \A c1, c2 \in calls :
          (/\ c1.folder = c2.folder
           /\ \/ c1.dataset # c2.dataset /\ c1.suffix = c2.suffix
              \/ c1.dataset = c2.dataset /\ c1.suffix # c2.suffix)
            => c1.path # c2.path

\* Two calls into one folder for one dataset under different suffixes, and
\* two calls of different experiments that wrote the same file.
C2_Witness ==
    /\ \E c1, c2 \in calls :
          /\ c1.folder = c2.folder
          /\ c1.dataset = c2.dataset
          /\ c1.suffix # c2.suffix
    /\ Cardinality(DOMAIN files) = 2

\* C3: in every hypertune file, a hyperparameter annotated for search carries
\* the three keys sample_type, sample_space and default, and its sample space
\* admits its default (an element of a categorical list; inside [low, high]
\* and, with a step, a whole number of steps above low).
C3_AnnotatedHpWellFormed ==
    (cursor > 0 /\ Annotated(CurrentNode)) =>
        /\ SamplingKeys \subseteq DOMAIN CurrentNode
        /\ Admits(CurrentNode, CurrentNode.default)

\* The reader stands at a stepped float of the cifar10 / sgd file, resolved
\* to its default, which is not the low end of its range.
C3_Witness ==
    /\ cfgFile = "pc_cifar10_sgd"
    /\ cursor > 0
    /\ HpOf(cfgFile)[cursor].path = "optim.w.momentum"
    /\ Annotated(CurrentNode)
    /\ value = CurrentNode.default
    /\ Less(CurrentNode.sample_space[1][1], value)

\* C4: for every argument s the wrapper runs the driver once, with exactly
\* one study name bp_<s>, the GPU list 0,1,2,3,4,5,6,7, the trial count 32:8
\* and exactly one config path bp_<s>_hypertune.yaml.
C4_OneStudyOneConfig ==
    jpc = "done" =>
        /\ Len(invocations) = 1
        /\ ArgsOf(invocations[1], "--study") = <<"bp_" \o arg1>>
        /\ ArgsOf(invocations[1], "--gpus") = <<"0,1,2,3,4,5,6,7">>
        /\ ArgsOf(invocations[1], "--n_trials") = <<"32:8">>
        /\ ArgsOf(invocations[1], "--config") = <<"bp_" \o arg1 \o "_hypertune.yaml">>

\* The T the claim names for a configuration.
ClaimedT(cfg) == IF cfg = "training_stability" THEN 8 ELSE 20

\* C5: in every training step the states undergo exactly T relaxation
\* iterations (8 in the sweep configuration, 20 in the hypertune files), and
\* the weight update of the step comes only after all T of them.
C5_UpdateAfterTRelaxations ==
    runCfg # "none" =>
        /\ relax <= ClaimedT(runCfg)
        /\ tphase = "updated" =>
              /\ relaxAtUpdate = ClaimedT(runCfg)
              /\ relax = ClaimedT(runCfg)

\* A hypertune run and its second weight update.
C5_Witness ==
    /\ runCfg = "pc_cifar10_sgd"
    /\ tphase = "updated"
    /\ tstep >= 2
    /\ relaxAtUpdate = 20

\* The surviving rows of the plotted dataset under the i-th panel condition.
ExpectedRows(i) ==
    {r \in plot.kept :
        /\ r.dataset = plot.dataset
        /\ r.condition = <<"PC-sgd-0.9", "PC-adamw-0.9", "BP-sgd-0.9">>[i]}

\* C6, as stated: the rows drawn in panel i are exactly the surviving rows of
\* the requested dataset whose condition is the i-th panel condition.
C6_PanelsDrawExactlySelectedRows ==
    Plotted =>
        \A i \in 1..3 :
            /\ plot.panels[i].title = <<"PC - SGD", "PC - Adam", "BP">>[i]
            /\ plot.panels[i].rows = ExpectedRows(i)

\* C6, amended: panels 1 and 2 draw exactly those rows; the BP panel draws
\* them together with a copy of each whose config.h_lr is raised by 0.1.  No
\* row of another dataset or of another condition is drawn.
C6_PanelsDrawSelectedRows ==
    Plotted =>
        \A i \in 1..3 :
            /\ plot.panels[i].title = <<"PC - SGD", "PC - Adam", "BP">>[i]
            /\ plot.panels[i].rows =
                  IF i = 3
                  THEN ExpectedRows(i) \cup
                       {[r EXCEPT !.h_lr = r.h_lr + 100] : r \in ExpectedRows(i)}
                  ELSE ExpectedRows(i)

\* A plot with a PC panel and the BP panel drawn, from a table that also
\* holds a surviving row that belongs in no panel.
C6_Witness ==
    /\ Plotted
    /\ plot.panels[3].rows # {}
    /\ \E r \in plot.kept :
          \/ r.dataset # plot.dataset
          \/ r.condition = "PC-sgd-0.5"

\* C7: every width drawn in a panel has the palette colour of its rank among
\* the distinct widths of all retained rows of the dataset, so that the
\* legend of the first panel is valid for the other two.
C7_WidthColourSameInAllPanels ==
    Plotted =>
        \A i \in 1..3 :
            \A w \in DOMAIN plot.panels[i].colour :
                plot.panels[i].colour[w] = IndexOf(plot.h_dims, w)

=============================================================================
